---- MODULE Spec2Model ----
(***************************************************************************)
(* A model of the meilisearch-python-sdk client:                           *)
(*   - the task poller behind Client.wait_for_task (Spec, FairSpec),       *)
(*   - batch partitioning of documents, _batch and                         *)
(*     Index.add_documents_in_batches (SpecBatch),                         *)
(*   - BaseClient.generate_tenant_token (SpecToken),                       *)
(*   - the index operations of Client and AsyncClient (SpecClient),        *)
(*   - directory ingestion and the fan-out of batches (SpecDir),           *)
(*   - two concurrent AsyncClient.get_or_create_index calls (SpecRace).    *)
(* The parts share one set of variables; each specification keeps          *)
(* the variables of the other parts at their initial values.               *)
(***************************************************************************)
EXTENDS Integers, Sequences, FiniteSets, TLC

VARIABLES
    \* ---- the server's task table and the poller (Spec, FairSpec)
    tasks,          \* server side: task uid -> [status, error]
    pc,             \* position of the caller: "idle", "fetch", "sleep", "done"
    req,            \* arguments the caller gave to Client.wait_for_task
    args,           \* arguments Client.wait_for_task hands to _task.wait_for_task
    clock,          \* milliseconds since start_time (saturates at ClockCap)
    sleepLeft,      \* milliseconds left of the current sleep
    lastObs,        \* the snapshot the last fetch of this call returned
    outcome,        \* how the call ended: [kind, snap, error]
    sent,           \* the requests this call has sent
    termInTime,     \* history: the polled task was terminal before the deadline
    termAtCall,     \* history: the polled task was terminal when the call began
    prev,           \* history: the previous finished call
    ncalls,         \* number of calls made so far
    \* ---- batch upload (SpecBatch)
    documents,      \* the list handed to add_documents_in_batches
    batch_size,
    primary_key,
    bi,             \* the generator's loop variable i
    chunks,         \* the chunks yielded so far
    posted,         \* the requests the server has received, in order
    taskInfos,      \* the TaskInfo results collected so far
    bpc,            \* "run", "returned", "api_error", "communication_error"
    \* ---- tenant token (SpecToken)
    search_rules,
    api_key,
    expires_at,
    utcnow,
    tokenResult,    \* [kind, token]
    tpc,            \* "ready", "done"
    \* ---- index operations of the client (SpecClient)
    srvIndexes,     \* server side: index uid -> [exists, primaryKey]
    srvTask,        \* server side: status of the indexCreation task of this call
    op,             \* the client method called and its arguments
    cpc,            \* position inside the method
    csent,          \* the HTTP requests sent, each with its reply
    cresult,        \* what the method returned or raised
    client,         \* the client instance: [headers, http_client]
    \* ---- directory ingestion and batch fan-out (SpecDir)
    dop,            \* the method called
    mode,           \* "sync", "gather" or "taskgroup"
    listing,        \* directory.iterdir(): the suffix of each entry, in order
    dkey,           \* the primary_key argument
    di,             \* position of the loop over the entries
    dpc,            \* position of the caller
    rq,             \* per entry: state of its add_documents call
    dfirst,         \* the entry whose call is awaited on its own, 0 if none
    dlog,           \* history: requests sent and responses received, in order
    dsent,          \* the requests sent: [job, primaryKey]
    dresult,        \* what the caller received: [kind, items]
    \* ---- two concurrent get_or_create_index (SpecRace)
    rargs,          \* the uid both callers pass and each caller's primary_key
    rpc,            \* per caller: position inside the method
    rtasks,         \* server side: per caller, its indexCreation task
    rsent,          \* per caller: the HTTP requests sent, each with its reply
    rres,           \* per caller: what the method returned or raised
    rsrv            \* server side: index uid -> [exists, primaryKey]

pollVars == <<tasks, pc, req, args, clock, sleepLeft, lastObs,
              outcome, sent, termInTime, termAtCall, prev, ncalls>>
batchVars == <<documents, batch_size, primary_key, bi, chunks, posted, taskInfos, bpc>>
tokenVars == <<search_rules, api_key, expires_at, utcnow, tokenResult, tpc>>
clientVars == <<srvIndexes, srvTask, op, cpc, csent, cresult, client>>
dirVars == <<dop, mode, listing, dkey, di, dpc, rq, dfirst, dlog, dsent, dresult>>
raceVars == <<rargs, rpc, rtasks, rsent, rres, rsrv>>
vars == <<pollVars, batchVars, tokenVars, clientVars, dirVars, raceVars>>

Min(a, b) == IF a <= b THEN a ELSE b
Max(a, b) == IF a >= b THEN a ELSE b
Range(s) == {s[k] : k \in 1..Len(s)}

\* ------------------------------------------------------------------ bounds
MaxTimeout == 2
MaxInterval == 2

\* The tasks on the server, and the calls the caller makes: a first wait and one
\* more.
TaskIds == {1, 2}
CallNumbers == {1, 2}
\* The clock is only ever compared with a timeout, so it stops at the largest.
ClockCap == MaxTimeout

\* ------------------------------------------------------- the server's tasks
NonTerminal == {"enqueued", "processing"}
Terminal == {"succeeded", "failed", "canceled"}
NoError == "null"
ErrorPayloads == {"invalid_document_id"}

NoSnap == [uid |-> 0, status |-> "none", error |-> NoError]

\* enqueued -> processing
ServerProcess(t) ==
    /\ tasks[t].status = "enqueued"
    /\ tasks' = [tasks EXCEPT ![t].status = "processing"]

\* processing -> succeeded | failed (with or without an error payload); a task
\* that is not yet terminal may be canceled (by some other client).
ServerFinish(t) ==
    \/ /\ tasks[t].status = "processing"
       /\ tasks' = [tasks EXCEPT ![t].status = "succeeded"]
    \/ /\ tasks[t].status = "processing"
       /\ \E e \in ErrorPayloads \cup {NoError} :
            tasks' = [tasks EXCEPT ![t] = [status |-> "failed", error |-> e]]
    \/ /\ tasks[t].status \in NonTerminal
       /\ tasks' = [tasks EXCEPT ![t].status = "canceled"]

\* The deadline of the running call has not passed (true time, not the poller's
\* local elapsed_time).
BeforeDeadline == ~args.timeout_in_ms.some \/ clock < args.timeout_in_ms.ms

Server ==
    /\ \E t \in TaskIds : ServerProcess(t) \/ ServerFinish(t)
    /\ termInTime' = IF /\ pc \in {"fetch", "sleep"}
                        /\ tasks'[args.task_id].status \in Terminal
                        /\ tasks[args.task_id].status \notin Terminal
                        /\ BeforeDeadline
                     THEN TRUE ELSE termInTime
    /\ UNCHANGED <<pc, req, args, clock, sleepLeft, lastObs, outcome,
                   sent, termAtCall, prev, ncalls>>
    /\ UNCHANGED <<batchVars, tokenVars, clientVars, dirVars, raceVars>>

\* What a request does to the task table: the task status endpoint is a GET and
\* changes nothing; a cancel request cancels the task if it is not terminal yet.
ServerApply(tbl, r) ==
    IF r.method = "GET" THEN tbl
    ELSE IF r.method = "POST" /\ r.path = "tasks/cancel" /\ tbl[r.uid].status \in NonTerminal
         THEN [tbl EXCEPT ![r.uid].status = "canceled"]
         ELSE tbl

RECURSIVE ServerApplyAll(_, _)
ServerApplyAll(tbl, rs) ==
    IF rs = <<>> THEN tbl ELSE ServerApplyAll(ServerApply(tbl, Head(rs)), Tail(rs))

\* ---------------------------------------------------------------- the poller
Timeouts == {[some |-> FALSE, ms |-> 0]} \cup {[some |-> TRUE, ms |-> m] : m \in 1..MaxTimeout}
Requests == [task_id : TaskIds, timeout_in_ms : Timeouts,
             interval_in_ms : 1..MaxInterval, raise_for_status : BOOLEAN]
NoArgs == [task_id |-> 1, timeout_in_ms |-> [some |-> FALSE, ms |-> 0],
           interval_in_ms |-> 1, raise_for_status |-> FALSE]
NoOutcome == [kind |-> "none", snap |-> NoSnap, error |-> NoError]
NoPrev == [made |-> FALSE, task_id |-> 1, outcome |-> NoOutcome, termAtCall |-> FALSE]

\* Client.wait_for_task: hands its arguments to _task.wait_for_task unchanged.
ClientWaitForTaskTimeoutIsInterval(task_id, timeout_in_ms, interval_in_ms, raise_for_status) ==
    [task_id |-> task_id,
     timeout_in_ms |-> [some |-> TRUE, ms |-> interval_in_ms],
     interval_in_ms |-> interval_in_ms, raise_for_status |-> raise_for_status]
ClientWaitForTaskForever(task_id, timeout_in_ms, interval_in_ms, raise_for_status) ==
    [task_id |-> task_id, timeout_in_ms |-> [some |-> FALSE, ms |-> 0],
     interval_in_ms |-> interval_in_ms, raise_for_status |-> raise_for_status]
ClientWaitForTaskNoRaise(task_id, timeout_in_ms, interval_in_ms, raise_for_status) ==
    [task_id |-> task_id, timeout_in_ms |-> timeout_in_ms,
     interval_in_ms |-> interval_in_ms, raise_for_status |-> FALSE]
ClientWaitForTaskWrongId(task_id, timeout_in_ms, interval_in_ms, raise_for_status) ==
    [task_id |-> IF task_id = 2 THEN 1 ELSE 2,
     timeout_in_ms |-> timeout_in_ms,
     interval_in_ms |-> interval_in_ms, raise_for_status |-> raise_for_status]
ClientWaitForTask(task_id, timeout_in_ms, interval_in_ms, raise_for_status) ==
    [task_id |-> task_id, timeout_in_ms |-> timeout_in_ms,
     interval_in_ms |-> interval_in_ms, raise_for_status |-> raise_for_status]

\* The status fetch: GET tasks/{task_id}.
PollRequestCancel(task_id) == [method |-> "POST", path |-> "tasks/cancel", uid |-> task_id]
PollRequest(task_id) == [method |-> "GET", path |-> "tasks/{uid}", uid |-> task_id]

\* What the poller sends to the server when its deadline passes: nothing.
TimeoutRequestsCancel(task_id) == <<PollRequestCancel(task_id)>>
TimeoutRequests(task_id) == <<>>

\* The statuses on which the poller stops.
PollerTerminalNoCanceled == {"succeeded", "failed"}
PollerTerminal == {"succeeded", "failed", "canceled"}

\* A terminal snapshot is turned into TaskFailedError when the flag is set and
\* the status is failed or canceled.
ShouldRaise(raise_for_status, status) ==
    raise_for_status /\ status \in {"failed", "canceled"}

\* The loop condition: the deadline check, skipped for "wait forever".
DeadlineExceeded(timeout_in_ms, elapsed) ==
    timeout_in_ms.some /\ ~(elapsed < timeout_in_ms.ms)

\* What the poller does with the answer to one fetch: [pc, outcome].
AfterFetchRetry(resp, a) ==
    IF ~resp.ok THEN [pc |-> "sleep", outcome |-> NoOutcome]
    ELSE IF resp.snap.status \in PollerTerminal
         THEN [pc |-> "done",
               outcome |-> [kind |-> "returned", snap |-> resp.snap, error |-> NoError]]
         ELSE [pc |-> "sleep", outcome |-> NoOutcome]
AfterFetch(resp, a) ==
    IF ~resp.ok
    THEN [pc |-> "done",
          outcome |-> [kind |-> "communication_error", snap |-> NoSnap, error |-> NoError]]
    ELSE IF resp.snap.status \in PollerTerminal
         THEN IF ShouldRaise(a.raise_for_status, resp.snap.status)
              THEN [pc |-> "done",
                    outcome |-> [kind |-> "task_failed", snap |-> NoSnap,
                                 error |-> resp.snap.error]]
              ELSE [pc |-> "done",
                    outcome |-> [kind |-> "returned", snap |-> resp.snap,
                                 error |-> NoError]]
         ELSE [pc |-> "sleep", outcome |-> NoOutcome]

TimeoutOutcome == [kind |-> "timeout", snap |-> NoSnap, error |-> NoError]

\* The caller calls client.wait_for_task(task_id, timeout_in_ms=..., ...):
\* start_time = now, elapsed_time = 0, and the loop condition is tested.
Call ==
    /\ pc \in {"idle", "done"}
    /\ ncalls + 1 \in CallNumbers
    /\ \E r \in Requests :
         LET a == ClientWaitForTask(r.task_id, r.timeout_in_ms, r.interval_in_ms,
                                    r.raise_for_status)
             late == DeadlineExceeded(a.timeout_in_ms, 0)
         IN /\ req' = r
            /\ args' = a
            /\ pc' = IF late THEN "done" ELSE "fetch"
            /\ outcome' = IF late THEN TimeoutOutcome ELSE NoOutcome
            /\ tasks' = IF late THEN ServerApplyAll(tasks, TimeoutRequests(a.task_id))
                        ELSE tasks
            /\ termAtCall' = (tasks[r.task_id].status \in Terminal)
            /\ termInTime' = (tasks[r.task_id].status \in Terminal)
    /\ prev' = IF pc = "done"
               THEN [made |-> TRUE, task_id |-> req.task_id, outcome |-> outcome,
                     termAtCall |-> termAtCall]
               ELSE prev
    /\ ncalls' = ncalls + 1
    /\ clock' = 0
    /\ sleepLeft' = 0
    /\ lastObs' = NoSnap
    /\ sent' = {}
    /\ UNCHANGED <<batchVars, tokenVars, clientVars, dirVars, raceVars>>

\* One status fetch and what follows it up to the sleep. The transport either
\* answers with the task's current snapshot or fails.
Fetch ==
    /\ pc = "fetch"
    /\ LET r == PollRequest(args.task_id)
           tbl == ServerApply(tasks, r)
       IN /\ tasks' = tbl
          /\ sent' = sent \cup {r}
          /\ \E resp \in {[ok |-> TRUE,
                           snap |-> [uid |-> args.task_id,
                                     status |-> tbl[args.task_id].status,
                                     error |-> tbl[args.task_id].error]],
                          [ok |-> FALSE, snap |-> NoSnap]} :
               LET nxt == AfterFetch(resp, args)
               IN /\ pc' = nxt.pc
                  /\ outcome' = nxt.outcome
                  /\ lastObs' = resp.snap
                  /\ sleepLeft' = IF nxt.pc = "sleep" THEN args.interval_in_ms ELSE 0
    /\ UNCHANGED <<req, args, clock, termInTime, termAtCall, prev, ncalls>>
    /\ UNCHANGED <<batchVars, tokenVars, clientVars, dirVars, raceVars>>

\* The sleep is over: elapsed_time is measured from start_time (it is the clock's
\* value here, and is not read again before it is next assigned) and the loop
\* condition is tested again.
Wake ==
    /\ pc = "sleep"
    /\ sleepLeft = 0
    /\ LET late == DeadlineExceeded(args.timeout_in_ms, clock)
       IN /\ pc' = IF late THEN "done" ELSE "fetch"
          /\ outcome' = IF late THEN TimeoutOutcome ELSE NoOutcome
          /\ tasks' = IF late THEN ServerApplyAll(tasks, TimeoutRequests(args.task_id))
                      ELSE tasks
    /\ UNCHANGED <<req, args, clock, sleepLeft, lastObs, sent, termInTime, termAtCall,
                   prev, ncalls>>
    /\ UNCHANGED <<batchVars, tokenVars, clientVars, dirVars, raceVars>>

\* One millisecond passes while a call is running.
Tick ==
    /\ pc \in {"fetch", "sleep"}
    /\ clock < ClockCap \/ sleepLeft > 0
    /\ clock' = Min(clock + 1, ClockCap)
    /\ sleepLeft' = Max(sleepLeft - 1, 0)
    /\ UNCHANGED <<tasks, pc, req, args, lastObs, outcome, sent,
                   termInTime, termAtCall, prev, ncalls>>
    /\ UNCHANGED <<batchVars, tokenVars, clientVars, dirVars, raceVars>>

PollInit ==
    /\ tasks = [t \in TaskIds |-> [status |-> "enqueued", error |-> NoError]]
    /\ pc = "idle"
    /\ req = NoArgs
    /\ args = NoArgs
    /\ clock = 0
    /\ sleepLeft = 0
    /\ lastObs = NoSnap
    /\ outcome = NoOutcome
    /\ sent = {}
    /\ termInTime = FALSE
    /\ termAtCall = FALSE
    /\ prev = NoPrev
    /\ ncalls = 0

BatchIdle ==
    /\ documents = <<>>
    /\ batch_size = 1
    /\ primary_key = "null"
    /\ bi = 0
    /\ chunks = <<>>
    /\ posted = <<>>
    /\ taskInfos = <<>>
    /\ bpc = "returned"

TokenIdle ==
    /\ search_rules = <<>>
    /\ api_key = <<>>
    /\ expires_at = 0
    /\ utcnow = 0
    /\ tokenResult = <<>>
    /\ tpc = "done"

ClientIdle ==
    /\ srvIndexes = <<>>
    /\ srvTask = "none"
    /\ op = <<>>
    /\ cpc = "done"
    /\ csent = <<>>
    /\ cresult = <<>>
    /\ client = <<>>

RaceIdle ==
    /\ rargs = <<>>
    /\ rpc = <<>>
    /\ rtasks = <<>>
    /\ rsent = <<>>
    /\ rres = <<>>
    /\ rsrv = <<>>

DirIdle ==
    /\ dop = "none"
    /\ mode = "sync"
    /\ listing = <<>>
    /\ dkey = "null"
    /\ di = 1
    /\ dpc = "done"
    /\ rq = <<>>
    /\ dfirst = 0
    /\ dlog = <<>>
    /\ dsent = <<>>
    /\ dresult = <<>>

Init == PollInit /\ BatchIdle /\ TokenIdle /\ ClientIdle /\ DirIdle /\ RaceIdle

Next == Call \/ Fetch \/ Wake \/ Tick \/ Server

Spec == Init /\ [][Next]_vars

\* One call only: the liveness of a call does not depend on the calls before it.
InitLastCall ==
    /\ tasks = [t \in TaskIds |-> [status |-> "enqueued", error |-> NoError]]
    /\ pc = "idle"
    /\ req = NoArgs
    /\ args = NoArgs
    /\ clock = 0
    /\ sleepLeft = 0
    /\ lastObs = NoSnap
    /\ outcome = NoOutcome
    /\ sent = {}
    /\ termInTime = FALSE
    /\ termAtCall = FALSE
    /\ prev = NoPrev
    /\ ncalls = 1
    /\ BatchIdle /\ TokenIdle /\ ClientIdle /\ DirIdle /\ RaceIdle

\* Every fetch returns (with an answer or a transport error), every sleep ends,
\* and time passes. Nothing is assumed of the server.
FairSpec ==
    InitLastCall /\ [][Next]_vars /\ WF_vars(Fetch) /\ WF_vars(Wake) /\ WF_vars(Tick)

\* ------------------------------------------------------ claims on the poller
Done == pc = "done"
Active == pc \in {"fetch", "sleep"}
Polled == tasks[req.task_id]
PolledSnapshot == [uid |-> req.task_id, status |-> Polled.status, error |-> Polled.error]
TransportFailed == outcome.kind = "communication_error"
FetchFailed == sent # {} /\ lastObs = NoSnap
PollerStep == Call \/ Fetch \/ Wake

C2_EnqueuedTimesOut ==
    /\ (Done /\ req.timeout_in_ms.some /\ Polled.status = "enqueued")
         => /\ outcome.kind \in {"timeout", "communication_error"}
            /\ (~FetchFailed => outcome.kind = "timeout")
            /\ (outcome.kind = "timeout" => clock >= req.timeout_in_ms.ms)
    /\ outcome.kind = "returned" => outcome.snap.status \in Terminal

C2_Witness ==
    /\ Done /\ outcome.kind = "timeout" /\ Polled.status = "enqueued"
    /\ sent # {} /\ lastObs.status = "enqueued"

\* C3: once a fetch has observed the polled task as failed the call is over:
\* with raise_for_status=False it returned the failed snapshot, with
\* raise_for_status=True it raised TaskFailedError carrying the task's error
\* payload; with a finite timeout and with none.
C3_FailedTask ==
    (lastObs.status = "failed")
        => /\ Done
           /\ IF req.raise_for_status
              THEN outcome.kind = "task_failed" /\ outcome.error = Polled.error
              ELSE outcome.kind = "returned" /\ outcome.snap = PolledSnapshot
                   /\ outcome.snap.status = "failed"

C3_Witness ==
    /\ prev.made /\ prev.outcome.kind = "returned" /\ prev.outcome.snap.status = "failed"
    /\ Done /\ outcome.kind = "task_failed" /\ outcome.error # NoError
    /\ ~req.timeout_in_ms.some

C5_TransportErrorPropagates ==
    /\ [](FetchFailed => (Done /\ outcome.kind = "communication_error"))
    /\ [](outcome.kind = "communication_error" => FetchFailed)
    /\ [][(FetchFailed /\ ncalls' = ncalls)
            => UNCHANGED <<pc, outcome, sent, lastObs>>]_vars

C5_Witness ==
    /\ Done /\ outcome.kind = "communication_error"
    /\ req.timeout_in_ms.some /\ clock < req.timeout_in_ms.ms
    /\ Polled.status = "processing" /\ sent = {PollRequest(req.task_id)}

\* C6: with a finite timeout every call terminates, whatever the server does;
\* with no timeout the call never raises the timeout error, ends only on a
\* transport error or on observing a terminal status, and does end once the
\* task is terminal.
C6_Termination ==
    /\ (Active /\ req.timeout_in_ms.some) ~> Done
    /\ [](~req.timeout_in_ms.some => outcome.kind # "timeout")
    /\ []((Done /\ ~req.timeout_in_ms.some)
            => (outcome.kind = "communication_error" \/ lastObs.status \in Terminal))
    /\ (Active /\ ~req.timeout_in_ms.some /\ Polled.status \in Terminal) ~> Done

C6_Witness ==
    /\ ~req.timeout_in_ms.some /\ pc = "sleep" /\ clock = ClockCap
    /\ lastObs.status = "enqueued" /\ Polled.status = "enqueued"

\* C7: the step on which the poller gives up with the timeout error leaves the
\* server's tasks as they are, and a later call on the same task that returns,
\* returns the task's own terminal snapshot.
C7_TimeoutLeavesServerAlone ==
    /\ [][(pc # "done" /\ pc' = "done" /\ outcome'.kind = "timeout")
            => tasks' = tasks]_vars
    /\ []((prev.made /\ prev.outcome.kind = "timeout" /\ prev.task_id = req.task_id
            /\ Done /\ outcome.kind = "returned")
           => (outcome.snap = PolledSnapshot /\ outcome.snap.status \in Terminal))

C7_Witness ==
    /\ prev.made /\ prev.outcome.kind = "timeout" /\ prev.task_id = req.task_id
    /\ ~prev.termAtCall
    /\ Done /\ outcome.kind = "returned" /\ outcome.snap.status = "succeeded"

\* C8: a call on a task that is already terminal returns that task's snapshot
\* (no transport failure, raise_for_status off), two such calls on the same
\* task return the same snapshot, every request a call sends is a GET, and no
\* step of the poller changes the server's tasks.
C8_PollingIsObservational ==
    /\ []((Done /\ termAtCall /\ ~req.raise_for_status /\ ~FetchFailed)
            => (outcome.kind = "returned" /\ outcome.snap = PolledSnapshot))
    /\ []((Done /\ prev.made /\ prev.termAtCall /\ prev.task_id = req.task_id
            /\ prev.outcome.kind = "returned" /\ outcome.kind = "returned")
           => outcome.snap = prev.outcome.snap)
    /\ [](\A r \in sent : r.method = "GET")
    /\ [][PollerStep => tasks' = tasks]_vars

C8_Witness ==
    /\ Done /\ prev.made /\ prev.termAtCall /\ prev.task_id = req.task_id
    /\ prev.outcome.kind = "returned" /\ outcome.kind = "returned"
    /\ outcome.snap = prev.outcome.snap /\ outcome.snap.status = "failed"
    /\ outcome.snap.error # NoError

\* =========================================================== batch upload
MaxDocs == 4
MaxBatchSize == 3

Docs == {"d1", "d2"}
PrimaryKeys == {"null", "", "id"}      \* None, the empty string, a field name
DocumentLists == UNION {[1..n -> Docs] : n \in 0..MaxDocs}

\* documents[lo:hi] for 0 <= lo and 0 <= hi: the elements at the 0-based
\* positions lo .. min(hi, len) - 1.
PySlice(s, lo, hi) == SubSeq(s, lo + 1, Min(hi, Len(s)))

\* _batch: the chunk yielded for loop value i.
BatchChunkNoOffset(docs, i, size) == PySlice(docs, i, size)
BatchChunkOverlap(docs, i, size) == PySlice(docs, i, i + size + 1)
BatchChunk(docs, i, size) == PySlice(docs, i, i + size)

\* _batch: range(0, total_len, batch_size) still has a value at i.
BatchHasNext(docs, i) == i < Len(docs)

\* Index.add_documents: the request it posts.
AddDocumentsRequest(chunk, pk) ==
    [method |-> "POST",
     url |-> IF pk # "null" /\ pk # "" THEN <<"documents", "primaryKey", pk>>
             ELSE <<"documents">>,
     body |-> chunk]

\* An exception of add_documents leaves the list comprehension and the method.
PropagateSwallowed(err) == "run"
Propagate(err) == err

\* One turn of the list comprehension: _batch yields the next chunk and
\* add_documents posts it. The post is answered with a TaskInfo, or raises
\* (MeilisearchApiError: received and refused; MeilisearchCommunicationError:
\* not received), which ends add_documents_in_batches.
BatchStep ==
    /\ bpc = "run"
    /\ BatchHasNext(documents, bi)
    /\ LET chunk == BatchChunk(documents, bi, batch_size)
           r == AddDocumentsRequest(chunk, primary_key)
       IN /\ chunks' = Append(chunks, chunk)
          /\ \/ /\ posted' = Append(posted, r)
                /\ taskInfos' = Append(taskInfos, [task_uid |-> Len(posted) + 1,
                                                   status |-> "enqueued"])
                /\ bi' = bi + batch_size
                /\ bpc' = "run"
             \/ /\ \E err \in {"api_error", "communication_error"} :
                       bpc' = Propagate(err)
                /\ UNCHANGED <<posted, taskInfos, bi>>
    /\ UNCHANGED <<documents, batch_size, primary_key>>
    /\ UNCHANGED <<pollVars, tokenVars, clientVars, dirVars, raceVars>>

\* The generator is exhausted: the list of TaskInfo is returned.
BatchReturn ==
    /\ bpc = "run"
    /\ ~BatchHasNext(documents, bi)
    /\ bpc' = "returned"
    /\ UNCHANGED <<documents, batch_size, primary_key, bi, chunks, posted, taskInfos>>
    /\ UNCHANGED <<pollVars, tokenVars, clientVars, dirVars, raceVars>>

BatchInit ==
    /\ documents \in DocumentLists
    /\ batch_size \in 1..MaxBatchSize
    /\ primary_key \in PrimaryKeys
    /\ bi = 0
    /\ chunks = <<>>
    /\ posted = <<>>
    /\ taskInfos = <<>>
    /\ bpc = "run"

NextBatch == BatchStep \/ BatchReturn

InitBatch == PollInit /\ BatchInit /\ TokenIdle /\ ClientIdle /\ DirIdle /\ RaceIdle

SpecBatch == InitBatch /\ [][NextBatch]_vars

RECURSIVE Flatten(_)
Flatten(ss) == IF ss = <<>> THEN <<>> ELSE Head(ss) \o Flatten(Tail(ss))
CeilDiv(n, b) == (n + b - 1) \div b

\* C9: when add_documents_in_batches returns, the chunks in order concatenate
\* to the document list, there are ceil(N/B) of them, each of size 1..B, and
\* each was posted as it is, in order, with one TaskInfo per chunk; while it
\* runs the chunks so far concatenate to the first i documents.
C9_BatchPartition ==
    /\ bpc = "returned"
         => /\ Flatten(chunks) = documents
            /\ Len(chunks) = CeilDiv(Len(documents), batch_size)
            /\ \A k \in 1..Len(chunks) :
                 Len(chunks[k]) >= 1 /\ Len(chunks[k]) <= batch_size
            /\ [k \in 1..Len(posted) |-> posted[k].body] = chunks
            /\ Len(taskInfos) = Len(chunks)
    /\ bpc = "run"
         => /\ Flatten(chunks) = SubSeq(documents, 1, Min(bi, Len(documents)))
            /\ \A k \in 1..Len(chunks) : Len(chunks[k]) \in 1..batch_size

C9_Witness ==
    /\ bpc = "returned" /\ Len(documents) = MaxDocs /\ batch_size = MaxBatchSize
    /\ Len(chunks) = 2 /\ Len(chunks[2]) < batch_size
    /\ documents[1] # documents[2]

\* =========================================================== tenant token
MaxRuleIndexes == 2
MaxKeyIndexes == 2
MaxTick == 2

IndexNames == {"a", "c"}
Wildcard == "*"
Names == IndexNames \cup {Wildcard}
NameLists(n) == UNION {[1..m -> Names] : m \in 0..n}

\* search_rules: a list of index names, or a dict that may hold an "indexes"
\* list and may have index names as keys.
SearchRules ==
    {[kind |-> "list", items |-> l, hasIndexes |-> FALSE, indexes |-> <<>>, named |-> {}] :
        l \in NameLists(MaxRuleIndexes)}
    \cup
    {[kind |-> "dict", items |-> <<>>, hasIndexes |-> h[1], indexes |-> h[2], named |-> n] :
        h \in ({<<FALSE, <<>> >>} \cup {<<TRUE, l>> : l \in NameLists(MaxRuleIndexes)}),
        n \in SUBSET IndexNames}

\* The signing key: uid, secret and the list of indexes it allows.
ApiKeys == {[uid |-> "uid-1", key |-> "secret-1", indexes |-> l] :
              l \in NameLists(MaxKeyIndexes) \ {<<>>}}

\* Instants in half seconds; expires_at may be absent.
Instants == 0..MaxTick
Expiries == {[some |-> FALSE, t |-> 0]} \cup {[some |-> TRUE, t |-> t] : t \in Instants}

\* int(datetime.timestamp(t)): whole seconds.
Timestamp(t) == t \div 2

\* The loop over search_rules["indexes"]: TRUE when it raises InvalidRestriction.
RECURSIVE RestrictionViolated(_, _)
RestrictionViolatedFirstOnly(indexes, key_indexes) ==
    indexes # <<>> /\ key_indexes # <<Wildcard>> /\ Head(indexes) \notin Range(key_indexes)
RestrictionViolated(indexes, key_indexes) ==
    IF indexes = <<>> THEN FALSE
    ELSE IF key_indexes # <<Wildcard>> /\ Head(indexes) \notin Range(key_indexes)
         THEN TRUE
         ELSE RestrictionViolated(Tail(indexes), key_indexes)

\* isinstance(search_rules, dict) and search_rules.get("indexes")
HasIndexesEntry(rules) == rules.kind = "dict" /\ rules.hasIndexes /\ rules.indexes # <<>>

\* json.dumps / json.loads of search_rules inside the token: a list becomes an
\* array; a dict becomes an object, its "indexes" entry one member among the
\* others, the members unordered.
ToJsonNoIndexes(rules) ==
    IF rules.kind = "list"
    THEN [t |-> "array", elems |-> rules.items, keys |-> {}, indexes |-> <<>>]
    ELSE [t |-> "object", elems |-> <<>>, keys |-> rules.named, indexes |-> <<>>]
ToJson(rules) ==
    IF rules.kind = "list"
    THEN [t |-> "array", elems |-> rules.items, keys |-> {}, indexes |-> <<>>]
    ELSE [t |-> "object", elems |-> <<>>,
          keys |-> rules.named \cup (IF rules.hasIndexes THEN {"indexes"} ELSE {}),
          indexes |-> rules.indexes]
FromJson(j) ==
    IF j.t = "array"
    THEN [kind |-> "list", items |-> j.elems, hasIndexes |-> FALSE, indexes |-> <<>>,
          named |-> {}]
    ELSE [kind |-> "dict", items |-> <<>>, hasIndexes |-> "indexes" \in j.keys,
          indexes |-> j.indexes, named |-> j.keys \ {"indexes"}]

NoJson == [t |-> "null", elems |-> <<>>, keys |-> {}, indexes |-> <<>>]
NoPayload == [claims |-> {}, searchRules |-> NoJson, apiKeyUid |-> "", exp |-> 0]
NoToken == [payload |-> NoPayload, alg |-> "none", signedWith |-> ""]
NoClaims == [claims |-> {}, searchRules |-> FromJson(NoJson), apiKeyUid |-> "", exp |-> 0]

\* jwt.encode(payload, key, algorithm="HS256"), and jwt.decode with a key: the
\* claim set when the signature verifies.
JwtEncode(payload, key) == [payload |-> payload, alg |-> "HS256", signedWith |-> key]
JwtDecode(token, key) ==
    IF token.alg = "HS256" /\ token.signedWith = key
    THEN [claims |-> token.payload.claims,
          searchRules |-> FromJson(token.payload.searchRules),
          apiKeyUid |-> token.payload.apiKeyUid,
          exp |-> token.payload.exp]
    ELSE NoClaims

\* expires_at <= datetime.now(tz=timezone.utc)
NotInFutureStrict(expires, now) == expires.t < now
NotInFuture(expires, now) == expires.t <= now

\* The payload: searchRules, apiKeyUid and, with expires_at, exp.
TokenPayloadKeyAsUid(rules, key, expires) ==
    [claims |-> {"searchRules", "apiKeyUid"} \cup (IF expires.some THEN {"exp"} ELSE {}),
     searchRules |-> ToJson(rules),
     apiKeyUid |-> key.key,
     exp |-> IF expires.some THEN Timestamp(expires.t) ELSE 0]
TokenPayload(rules, key, expires) ==
    [claims |-> {"searchRules", "apiKeyUid"} \cup (IF expires.some THEN {"exp"} ELSE {}),
     searchRules |-> ToJson(rules),
     apiKeyUid |-> key.uid,
     exp |-> IF expires.some THEN Timestamp(expires.t) ELSE 0]

\* BaseClient.generate_tenant_token
GenerateTenantToken(rules, key, expires, now) ==
    IF HasIndexesEntry(rules) /\ RestrictionViolated(rules.indexes, key.indexes)
    THEN [kind |-> "InvalidRestriction", token |-> NoToken]
    ELSE IF expires.some /\ NotInFuture(expires, now)
    THEN [kind |-> "ValueError", token |-> NoToken]
    ELSE [kind |-> "token", token |-> JwtEncode(TokenPayload(rules, key, expires), key.key)]

Generate ==
    /\ tpc = "ready"
    /\ tokenResult' = GenerateTenantToken(search_rules, api_key, expires_at, utcnow)
    /\ tpc' = "done"
    /\ UNCHANGED <<search_rules, api_key, expires_at, utcnow>>
    /\ UNCHANGED <<pollVars, batchVars, clientVars, dirVars, raceVars>>

TokenInit ==
    /\ search_rules \in SearchRules
    /\ api_key \in ApiKeys
    /\ expires_at \in Expiries
    /\ utcnow \in Instants
    /\ tokenResult = [kind |-> "none", token |-> NoToken]
    /\ tpc = "ready"

NextToken == Generate

InitToken == PollInit /\ BatchIdle /\ TokenInit /\ ClientIdle /\ DirIdle /\ RaceIdle

SpecToken == InitToken /\ [][NextToken]_vars

\* The request names an index the key does not allow: it is not in the key's
\* list and the key has no wildcard.
NamesDisallowedIndex ==
    \E k \in 1..Len(search_rules.indexes) :
        /\ search_rules.indexes[k] \notin Range(api_key.indexes)
        /\ Wildcard \notin Range(api_key.indexes)
\* Every requested index is in the key's list.
AllRequestedListed ==
    \A k \in 1..Len(search_rules.indexes) :
        search_rules.indexes[k] \in Range(api_key.indexes)

\* C10: for search_rules with an "indexes" entry: if a requested index is not
\* allowed by the key the call fails with InvalidRestriction and makes no token;
\* if every requested index is in the key's list the restriction check passes
\* (the call does not fail with InvalidRestriction).
C10_RestrictionCheck ==
    (tpc = "done" /\ HasIndexesEntry(search_rules))
        => /\ NamesDisallowedIndex
                => (tokenResult.kind = "InvalidRestriction" /\ tokenResult.token = NoToken)
           /\ AllRequestedListed => tokenResult.kind # "InvalidRestriction"

C10_Witness ==
    /\ tpc = "done" /\ HasIndexesEntry(search_rules)
    /\ search_rules.indexes = <<"a", "c">> /\ api_key.indexes = <<"a">>
    /\ tokenResult.kind = "InvalidRestriction"
    /\ ~expires_at.some

C12_Expiry ==
    (tpc = "done" /\ expires_at.some)
        => /\ expires_at.t <= utcnow
                => /\ tokenResult.token = NoToken
                   /\ tokenResult.kind \in {"ValueError", "InvalidRestriction"}
                   /\ ~HasIndexesEntry(search_rules) => tokenResult.kind = "ValueError"
           /\ (expires_at.t > utcnow /\ tokenResult.kind # "InvalidRestriction")
                => /\ tokenResult.kind = "token"
                   /\ JwtDecode(tokenResult.token, api_key.key).exp
                        = expires_at.t \div 2
                   /\ "exp" \in JwtDecode(tokenResult.token, api_key.key).claims

C12_Witness ==
    /\ tpc = "done" /\ expires_at.some /\ expires_at.t = utcnow /\ utcnow > 0
    /\ tokenResult.kind = "ValueError" /\ search_rules.kind = "list"

\* C13 (as stated): a key whose allowed indexes contain "*" passes the
\* restriction check for every requested index.
C13_WildcardAllowsAll ==
    (tpc = "done" /\ HasIndexesEntry(search_rules)
        /\ Wildcard \in Range(api_key.indexes))
        => tokenResult.kind # "InvalidRestriction"

\* ------------------------------------------------------------ index operations
\* Client / AsyncClient: get_index, get_raw_index, create_index,
\* get_or_create_index and the list endpoints, against a server holding a table
\* of indexes.  The two clients run the same statements; the async one awaits
\* each request.

MaxOffset == 2

Uids == {"movies", "books"}
UidOrder == <<"books", "movies">>       \* the order the server lists indexes in
RequestedKeys == {"null", "", "id"}     \* None, the empty string, a field name
ServerKeys == {"null", "id", "other"}
Absent == [exists |-> FALSE, primaryKey |-> "null"]
IndexStates == {Absent} \cup {[exists |-> TRUE, primaryKey |-> k] : k \in ServerKeys}
ApiKeyUids == <<"key-1">>               \* the keys the server lists

NoInt == [some |-> FALSE, v |-> 0]
OptInts == {NoInt} \cup {[some |-> TRUE, v |-> n] : n \in 0..MaxOffset}

Methods == {"get_index", "get_raw_index", "create_index", "get_or_create_index",
            "get_indexes", "get_raw_indexes", "get_keys",
            "delete_index_if_exists", "index", "add_documents_from_raw_file"}
ListMethods == {"get_indexes", "get_raw_indexes", "get_keys"}

\* _build_offset_limit_url
BuildOffsetLimitUrlTruthy(base, offset, limit) ==
    IF (offset.some /\ offset.v # 0) /\ (limit.some /\ limit.v # 0)
    THEN [path |-> base, uid |-> "",
          query |-> << <<"offset", offset.v>>, <<"limit", limit.v>> >>]
    ELSE IF offset.some /\ offset.v # 0
    THEN [path |-> base, uid |-> "", query |-> << <<"offset", offset.v>> >>]
    ELSE IF limit.some /\ limit.v # 0
    THEN [path |-> base, uid |-> "", query |-> << <<"limit", limit.v>> >>]
    ELSE [path |-> base, uid |-> "", query |-> <<>>]
BuildOffsetLimitUrl(base, offset, limit) ==
    IF offset.some /\ limit.some
    THEN [path |-> base, uid |-> "",
          query |-> << <<"offset", offset.v>>, <<"limit", limit.v>> >>]
    ELSE IF offset.some
    THEN [path |-> base, uid |-> "", query |-> << <<"offset", offset.v>> >>]
    ELSE IF limit.some
    THEN [path |-> base, uid |-> "", query |-> << <<"limit", limit.v>> >>]
    ELSE [path |-> base, uid |-> "", query |-> <<>>]

IndexUrl(uid) == [path |-> "indexes", uid |-> uid, query |-> <<>>]
TaskUrl == [path |-> "tasks", uid |-> "", query |-> <<>>]

NoBody == [uid |-> "", hasPrimaryKey |-> FALSE, primaryKey |-> "null"]

\* Index.create / AsyncIndex.create: the payload.
CreatePayload(uid, key) ==
    IF key \in {"null", ""}
    THEN [uid |-> uid, hasPrimaryKey |-> FALSE, primaryKey |-> "null"]
    ELSE [uid |-> uid, hasPrimaryKey |-> TRUE, primaryKey |-> key]

\* ---- the server and the network
HasParam(url, name) == \E k \in 1..Len(url.query) : url.query[k][1] = name
Param(url, name, default) ==
    IF HasParam(url, name)
    THEN url.query[CHOOSE k \in 1..Len(url.query) : url.query[k][1] = name][2]
    ELSE default
ServerDefaults == [offset |-> 0, limit |-> 20]

Response(status, code, uid, key, results) ==
    [net |-> "response", status |-> status, code |-> code, uid |-> uid,
     primaryKey |-> key, results |-> results]
TransportFailure ==
    [net |-> "transport", status |-> 0, code |-> "", uid |-> "",
     primaryKey |-> "null", results |-> <<>>]
Denied == Response(403, "invalid_api_key", "", "null", <<>>)

Listing(table, url) ==
    LET all == IF url.path = "keys" THEN ApiKeyUids
               ELSE SelectSeq(UidOrder, LAMBDA u : table[u].exists)
        off == Param(url, "offset", ServerDefaults.offset)
        lim == Param(url, "limit", ServerDefaults.limit)
    IN PySlice(all, off, off + lim)

ServerAnswer(table, method, url) ==
    IF method \in {"POST", "DELETE"} THEN Response(202, "", "", "null", <<>>)
    ELSE IF url.path = "tasks" THEN Response(200, "", "", "null", <<>>)
    ELSE IF url.uid = "" THEN Response(200, "", "", "null", Listing(table, url))
    ELSE IF table[url.uid].exists
         THEN Response(200, "", url.uid, table[url.uid].primaryKey, <<>>)
         ELSE Response(404, "index_not_found", "", "null", <<>>)

Replies(table, method, url) == {ServerAnswer(table, method, url), Denied, TransportFailure}

\* ---- the transport adapter and the bare HTTP client
\* An Index or IndexInfo built from a server answer carries its createdAt and
\* updatedAt; other results carry none.
Returned(kind, uid, key, items) ==
    [kind |-> kind, uid |-> uid, primary_key |-> key, status |-> 0, code |-> "",
     items |-> items,
     timestamps |-> IF kind \in {"Index", "IndexInfo"} THEN "server" ELSE "null"]
Raised(kind, status, code) ==
    [kind |-> kind, uid |-> "", primary_key |-> "null", status |-> status, code |-> code,
     items |-> <<>>, timestamps |-> "null"]
NoResult == Returned("none", "", "null", <<>>)

Success(reply) == reply.net = "response" /\ reply.status \in 200..299

\* HttpRequests._send_request: what it raises; NoResult when it returns the response.
HttpRequests(reply) ==
    IF reply.net = "transport" THEN Raised("MeilisearchCommunicationError", 0, "")
    ELSE IF ~Success(reply) THEN Raised("MeilisearchApiError", reply.status, reply.code)
    ELSE NoResult

\* BaseClient.__init__: self._headers; Client.__init__: the HTTP client built
\* with them.
ApiKeyArgs == {"null", "", "masterKey"}     \* None, the empty string, a key
HeadersOfAnyString(key) ==
    IF key # "null" THEN {<<"Authorization", <<"Bearer", key>> >>} ELSE {}
HeadersOf(key) ==
    IF key \notin {"null", ""} THEN {<<"Authorization", <<"Bearer", key>> >>} ELSE {}
\* api_key is the constructor's argument, kept for the claims about it.
NewClient(key) ==
    [api_key |-> key, headers |-> HeadersOf(key),
     http_client |-> [headers |-> HeadersOf(key)]]

\* A request sent with the client's HTTP client carries that client's headers.
Request(method, url, body, via, reply) ==
    [method |-> method, url |-> url, body |-> body, via |-> via, reply |-> reply,
     headers |-> client.http_client.headers, content_type |-> "application/json"]

\* "index_not_found" not in err.code
IndexNotFoundInAny(code) == TRUE
IndexNotFoundIn(code) == code = "index_not_found"

NoTask == [type |-> "none", status |-> "none", uid |-> "", hasPrimaryKey |-> FALSE,
           primaryKey |-> "null"]
TerminalStatuses == {"succeeded", "failed", "canceled"}

StartPc(name) ==
    IF name \in {"get_index", "get_or_create_index"} THEN "get"
    ELSE IF name = "create_index" THEN "post"
    ELSE IF name = "get_raw_index" THEN "raw"
    ELSE IF name = "delete_index_if_exists" THEN "delete"
    ELSE IF name = "index" THEN "index"
    ELSE IF name = "add_documents_from_raw_file" THEN "upload"
    ELSE "list"

\* Index(http_client, uid).fetch_info(), called by get_index and first by
\* get_or_create_index.
FetchInfo ==
    /\ cpc = "get"
    /\ \E reply \in Replies(srvIndexes, "GET", IndexUrl(op.uid)) :
        LET err == HttpRequests(reply) IN
        /\ csent' = Append(csent, Request("GET", IndexUrl(op.uid), NoBody, "adapter", reply))
        /\ IF err = NoResult
           THEN cresult' = Returned("Index", op.uid, reply.primaryKey, <<>>) /\ cpc' = "done"
           ELSE IF /\ op.name = "get_or_create_index"
                   /\ err.kind = "MeilisearchApiError"
                   /\ IndexNotFoundIn(err.code)
           THEN cresult' = cresult /\ cpc' = "post"
           ELSE cresult' = err /\ cpc' = "done"
    /\ UNCHANGED <<srvIndexes, srvTask, op, client>>
    /\ UNCHANGED <<pollVars, batchVars, tokenVars, dirVars, raceVars>>

\* Index.create: the POST.
CreatePost ==
    /\ cpc = "post"
    /\ \E reply \in Replies(srvIndexes, "POST", IndexUrl("")) :
        LET err == HttpRequests(reply)
            payload == CreatePayload(op.uid, op.primary_key) IN
        /\ csent' = Append(csent, Request("POST", IndexUrl(""), payload, "adapter", reply))
        /\ IF err = NoResult
           THEN /\ srvTask' = [type |-> "indexCreation",
                               status |-> "enqueued", uid |-> payload.uid,
                               hasPrimaryKey |-> payload.hasPrimaryKey,
                               primaryKey |-> payload.primaryKey]
                /\ cresult' = cresult /\ cpc' = "wait"
           ELSE srvTask' = srvTask /\ cresult' = err /\ cpc' = "done"
    /\ UNCHANGED <<srvIndexes, op, client>>
    /\ UNCHANGED <<pollVars, batchVars, tokenVars, dirVars, raceVars>>

\* Index.create: wait_for_task(http_client, taskUid, timeout_in_ms=100000), its
\* result dropped.  The wait ends when a fetch shows the task terminal, when a
\* fetch fails, or with the timeout while the task is still enqueued.
CreateWait ==
    /\ cpc = "wait"
    /\ \/ /\ srvTask.status \in TerminalStatuses
          /\ csent' = Append(csent, Request("GET", TaskUrl, NoBody, "adapter",
                                            ServerAnswer(srvIndexes, "GET", TaskUrl)))
          /\ cresult' = cresult /\ cpc' = "fetch"
       \/ \E reply \in {Denied, TransportFailure} :
          /\ csent' = Append(csent, Request("GET", TaskUrl, NoBody, "adapter", reply))
          /\ cresult' = HttpRequests(reply) /\ cpc' = "done"
       \/ /\ srvTask.status = "enqueued"
          /\ csent' = Append(csent, Request("GET", TaskUrl, NoBody, "adapter",
                                            ServerAnswer(srvIndexes, "GET", TaskUrl)))
          /\ cresult' = Raised("MeilisearchTimeoutError", 0, "") /\ cpc' = "done"
    /\ UNCHANGED <<srvIndexes, srvTask, op, client>>
    /\ UNCHANGED <<pollVars, batchVars, tokenVars, dirVars, raceVars>>

\* Index.create: the GET of the index, and the instance built from its answer.
CreateFetch ==
    /\ cpc = "fetch"
    /\ \E reply \in Replies(srvIndexes, "GET", IndexUrl(op.uid)) :
        LET err == HttpRequests(reply) IN
        /\ csent' = Append(csent, Request("GET", IndexUrl(op.uid), NoBody, "adapter", reply))
        /\ cresult' = IF err = NoResult
                      THEN Returned("Index", reply.uid, reply.primaryKey, <<>>)
                      ELSE err
        /\ cpc' = "done"
    /\ UNCHANGED <<srvIndexes, srvTask, op, client>>
    /\ UNCHANGED <<pollVars, batchVars, tokenVars, dirVars, raceVars>>

\* The server runs the indexCreation task: it fails when the index exists.
ServerCreate ==
    /\ srvTask.type = "indexCreation"
    /\ srvTask.status = "enqueued"
    /\ IF srvIndexes[srvTask.uid].exists
       THEN /\ srvTask' = [srvTask EXCEPT !.status = "failed"]
            /\ srvIndexes' = srvIndexes
       ELSE /\ srvTask' = [srvTask EXCEPT !.status = "succeeded"]
            /\ srvIndexes' = [srvIndexes EXCEPT ![srvTask.uid] =
                                [exists |-> TRUE, primaryKey |-> srvTask.primaryKey]]
    /\ UNCHANGED <<op, cpc, csent, cresult, client>>
    /\ UNCHANGED <<pollVars, batchVars, tokenVars, dirVars, raceVars>>

\* get_raw_index: self.http_client.get, not the adapter.
GetRawIndex ==
    /\ cpc = "raw"
    /\ \E reply \in Replies(srvIndexes, "GET", IndexUrl(op.uid)) :
        /\ csent' = Append(csent, Request("GET", IndexUrl(op.uid), NoBody, "http_client", reply))
        /\ cresult' =
             IF reply.net = "transport" THEN Raised("httpx.TransportError", 0, "")
             ELSE IF reply.status = 404 THEN Returned("None", "", "null", <<>>)
             ELSE IF Success(reply)
                  THEN Returned("IndexInfo", reply.uid, reply.primaryKey, <<>>)
                  ELSE Raised("pydantic.ValidationError", 0, "")
        /\ cpc' = "done"
    /\ UNCHANGED <<srvIndexes, srvTask, op, client>>
    /\ UNCHANGED <<pollVars, batchVars, tokenVars, dirVars, raceVars>>

\* get_indexes, get_raw_indexes, get_keys
ListBase(name) == IF name = "get_keys" THEN "keys" ELSE "indexes"
ListKind(name) ==
    IF name = "get_keys" THEN "KeySearch"
    ELSE IF name = "get_indexes" THEN "list[Index]" ELSE "list[IndexInfo]"
GetList ==
    /\ cpc = "list"
    /\ LET url == BuildOffsetLimitUrl(ListBase(op.name), op.offset, op.limit) IN
       \E reply \in Replies(srvIndexes, "GET", url) :
        LET err == HttpRequests(reply) IN
        /\ csent' = Append(csent, Request("GET", url, NoBody, "adapter", reply))
        /\ cresult' =
             IF err # NoResult THEN err
             ELSE IF op.name # "get_keys" /\ reply.results = <<>>
                  THEN Returned("None", "", "null", <<>>)
                  ELSE Returned(ListKind(op.name), "", "null", reply.results)
        /\ cpc' = "done"
    /\ UNCHANGED <<srvIndexes, srvTask, op, client>>
    /\ UNCHANGED <<pollVars, batchVars, tokenVars, dirVars, raceVars>>

\* delete_index_if_exists / Index.delete_if_exists: the DELETE.
DeleteSend ==
    /\ cpc = "delete"
    /\ \E reply \in Replies(srvIndexes, "DELETE", IndexUrl(op.uid)) :
        LET err == HttpRequests(reply) IN
        /\ csent' = Append(csent, Request("DELETE", IndexUrl(op.uid), NoBody, "adapter", reply))
        /\ IF err = NoResult
           THEN /\ srvTask' = [type |-> "indexDeletion", status |-> "enqueued",
                               uid |-> op.uid, hasPrimaryKey |-> FALSE,
                               primaryKey |-> "null"]
                /\ cresult' = cresult /\ cpc' = "dwait"
           ELSE srvTask' = srvTask /\ cresult' = err /\ cpc' = "done"
    /\ UNCHANGED <<srvIndexes, op, client>>
    /\ UNCHANGED <<pollVars, batchVars, tokenVars, dirVars, raceVars>>

\* status.status == "succeeded"
DeletedStatusAnyTerminal(status) == TRUE
DeletedStatus(status) == status = "succeeded"

\* delete_index_if_exists: wait_for_task(taskUid, timeout_in_ms=100000), then
\* the comparison of the status.
DeleteWait ==
    /\ cpc = "dwait"
    /\ \/ /\ srvTask.status \in TerminalStatuses
          /\ csent' = Append(csent, Request("GET", TaskUrl, NoBody, "adapter",
                                            ServerAnswer(srvIndexes, "GET", TaskUrl)))
          /\ cresult' = Returned(IF DeletedStatus(srvTask.status) THEN "True" ELSE "False",
                                 "", "null", <<>>)
       \/ \E reply \in {Denied, TransportFailure} :
          /\ csent' = Append(csent, Request("GET", TaskUrl, NoBody, "adapter", reply))
          /\ cresult' = HttpRequests(reply)
       \/ /\ srvTask.status = "enqueued"
          /\ csent' = Append(csent, Request("GET", TaskUrl, NoBody, "adapter",
                                            ServerAnswer(srvIndexes, "GET", TaskUrl)))
          /\ cresult' = Raised("MeilisearchTimeoutError", 0, "")
    /\ cpc' = "done"
    /\ UNCHANGED <<srvIndexes, srvTask, op, client>>
    /\ UNCHANGED <<pollVars, batchVars, tokenVars, dirVars, raceVars>>

\* The server runs the indexDeletion task: it fails when there is no such index.
ServerDelete ==
    /\ srvTask.type = "indexDeletion"
    /\ srvTask.status = "enqueued"
    /\ IF srvIndexes[srvTask.uid].exists
       THEN /\ srvTask' = [srvTask EXCEPT !.status = "succeeded"]
            /\ srvIndexes' = [srvIndexes EXCEPT ![srvTask.uid] = Absent]
       ELSE /\ srvTask' = [srvTask EXCEPT !.status = "failed"]
            /\ srvIndexes' = srvIndexes
    /\ UNCHANGED <<op, cpc, csent, cresult, client>>
    /\ UNCHANGED <<pollVars, batchVars, tokenVars, dirVars, raceVars>>

\* An enqueued task is canceled on the server before it runs.
ServerCancel ==
    /\ srvTask.status = "enqueued"
    /\ srvTask' = [srvTask EXCEPT !.status = "canceled"]
    /\ UNCHANGED <<srvIndexes, op, cpc, csent, cresult, client>>
    /\ UNCHANGED <<pollVars, batchVars, tokenVars, dirVars, raceVars>>

\* Client.index(uid): Index(self.http_client, uid=uid)
LocalIndexFetched(uid) == Returned("Index", uid, "null", <<>>)
LocalIndex(uid) == [Returned("Index", uid, "null", <<>>) EXCEPT !.timestamps = "null"]

IndexReference ==
    /\ cpc = "index"
    /\ cresult' = LocalIndex(op.uid)
    /\ cpc' = "done"
    /\ UNCHANGED <<srvIndexes, srvTask, op, csent, client>>
    /\ UNCHANGED <<pollVars, batchVars, tokenVars, dirVars, raceVars>>

\* ---- Index.add_documents_from_raw_file
NoDelimiter == [some |-> FALSE, len |-> 0, ascii |-> TRUE]
Delimiters == {NoDelimiter,
               [some |-> TRUE, len |-> 0, ascii |-> TRUE],      \* ""
               [some |-> TRUE, len |-> 1, ascii |-> TRUE],      \* ";"
               [some |-> TRUE, len |-> 2, ascii |-> TRUE],      \* ";;"
               [some |-> TRUE, len |-> 1, ascii |-> FALSE]}     \* one non-ASCII character
FileSuffixes == {".csv", ".ndjson", ".json"}
NoFile == [exists |-> FALSE, suffix |-> "", csv_delimiter |-> NoDelimiter]
Files == [exists : BOOLEAN, suffix : FileSuffixes, csv_delimiter : Delimiters]

\* `if csv_delimiter`: None and the empty string are false.
Truthy(d) == d.some /\ d.len > 0

\* The checks before the request, in the order of the code.
RawFileError(file) ==
    IF ~file.exists THEN "MeilisearchError"
    ELSE IF file.suffix \notin {".csv", ".ndjson"} THEN "ValueError"
    ELSE IF Truthy(file.csv_delimiter) /\ file.suffix # ".csv" THEN "ValueError"
    ELSE IF \/ Truthy(file.csv_delimiter) /\ file.csv_delimiter.len # 1
            \/ Truthy(file.csv_delimiter) /\ ~file.csv_delimiter.ascii
         THEN "ValueError"
    ELSE "none"

ContentType(file) == IF file.suffix = ".csv" THEN "text/csv" ELSE "application/x-ndjson"

DocumentsUrl(uid, key, delimiter) ==
    [path |-> "documents", uid |-> uid,
     query |-> (IF key \notin {"null", ""} THEN << <<"primaryKey", key>> >> ELSE <<>>)
               \o (IF Truthy(delimiter) THEN << <<"csvDelimiter", "delimiter">> >> ELSE <<>>)]

\* HttpRequests.post(url, body=data, content_type=content_type): the content
\* type is a header of the one request; the client is left as it is.
ClientAfterPostSetsHeader(c, content_type) ==
    [c EXCEPT !.http_client =
        [headers |-> @.headers \cup {<<"Content-Type", <<content_type, "">> >>}]]
ClientAfterPost(c, content_type) == c

RawUpload ==
    /\ cpc = "upload"
    /\ IF RawFileError(op.file) # "none"
       THEN /\ cresult' = Raised(RawFileError(op.file), 0, "")
            /\ UNCHANGED <<csent, client>>
       ELSE LET url == DocumentsUrl(op.uid, op.primary_key, op.file.csv_delimiter) IN
            \E reply \in Replies(srvIndexes, "POST", url) :
            /\ csent' = Append(csent, [Request("POST", url, NoBody, "adapter", reply)
                                        EXCEPT !.content_type = ContentType(op.file)])
            /\ cresult' = IF HttpRequests(reply) = NoResult
                          THEN Returned("TaskInfo", "", "null", <<>>)
                          ELSE HttpRequests(reply)
            /\ client' = ClientAfterPost(client, ContentType(op.file))
    /\ cpc' = "done"
    /\ UNCHANGED <<srvIndexes, srvTask, op>>
    /\ UNCHANGED <<pollVars, batchVars, tokenVars, dirVars, raceVars>>

Op(name, uid, key, offset, limit, file) ==
    [name |-> name, uid |-> uid, primary_key |-> key, offset |-> offset, limit |-> limit,
     file |-> file]
Ops ==
    {Op(n, u, "null", NoInt, NoInt, NoFile) :
        n \in {"get_index", "get_raw_index", "delete_index_if_exists", "index"}, u \in Uids}
    \cup {Op(n, u, k, NoInt, NoInt, NoFile) :
        n \in {"create_index", "get_or_create_index"}, u \in Uids, k \in RequestedKeys}
    \cup {Op(n, "movies", "null", o, l, NoFile) :
        n \in ListMethods, o \in OptInts, l \in OptInts}
    \cup {Op("add_documents_from_raw_file", "movies", k, NoInt, NoInt, f) :
        k \in RequestedKeys, f \in Files}

ClientInit ==
    /\ srvIndexes \in [Uids -> IndexStates]
    /\ srvTask = NoTask
    /\ op \in Ops
    /\ \E k \in ApiKeyArgs : client = NewClient(k)
    /\ cpc = StartPc(op.name)
    /\ csent = <<>>
    /\ cresult = NoResult

NextClient ==
    FetchInfo \/ CreatePost \/ CreateWait \/ CreateFetch \/ ServerCreate
        \/ GetRawIndex \/ GetList
        \/ DeleteSend \/ DeleteWait \/ ServerDelete \/ ServerCancel
        \/ IndexReference \/ RawUpload
InitClient == PollInit /\ BatchIdle /\ TokenIdle /\ ClientInit /\ DirIdle /\ RaceIdle
SpecClient == InitClient /\ [][NextClient]_vars

CreateRequests == {k \in 1..Len(csent) : csent[k].method = "POST"}
FirstReply == csent[1].reply

\* C14: get_or_create_index(uid, pk).  When get_index succeeds its index is
\* returned and no create request is sent.  When it fails with an ApiError of
\* code index_not_found, the next request is the create request for (uid, pk),
\* and an index returned is the one the server then holds under uid.  Any other
\* ApiError and a CommunicationError end the call with that error, still as
\* raised by get_index, and no create request is sent.
C14_GetOrCreate ==
    (op.name = "get_or_create_index" /\ cpc = "done")
        => /\ Success(FirstReply)
                => /\ cresult = Returned("Index", op.uid, FirstReply.primaryKey, <<>>)
                   /\ CreateRequests = {}
           /\ (FirstReply.net = "response" /\ FirstReply.code = "index_not_found")
                => /\ Len(csent) >= 2
                   /\ csent[2].method = "POST" /\ csent[2].url = IndexUrl("")
                   /\ csent[2].body.uid = op.uid
                   /\ csent[2].body.hasPrimaryKey = (op.primary_key \notin {"null", ""})
                   /\ csent[2].body.hasPrimaryKey
                        => csent[2].body.primaryKey = op.primary_key
                   /\ cresult.kind = "Index"
                        => /\ cresult.uid = op.uid
                           /\ srvIndexes[op.uid].exists
                           /\ cresult.primary_key = srvIndexes[op.uid].primaryKey
           /\ (FirstReply.net = "response" /\ ~Success(FirstReply)
                    /\ FirstReply.code # "index_not_found")
                => /\ cresult = Raised("MeilisearchApiError", FirstReply.status,
                                       FirstReply.code)
                   /\ CreateRequests = {}
           /\ FirstReply.net = "transport"
                => /\ cresult.kind = "MeilisearchCommunicationError"
                   /\ CreateRequests = {}

C14_Witness ==
    /\ op.name = "get_or_create_index" /\ cpc = "done"
    /\ op.primary_key = "id"
    /\ FirstReply.code = "index_not_found"
    /\ cresult = Returned("Index", op.uid, "id", <<>>)
    /\ Len(csent) = 4

LastRequest == csent[Len(csent)]

\* C17 (as stated): every request goes through the transport adapter; a call
\* whose last request met a transport failure ends in CommunicationError, and
\* one whose last request was answered outside 2xx ends in ApiError with that
\* status and code, get_raw_index's None for a 404 apart.
C17_AllCallsThroughAdapter ==
    (cpc = "done" /\ csent # <<>>)
        => /\ \A k \in 1..Len(csent) : csent[k].via = "adapter"
           /\ LastRequest.reply.net = "transport"
                => cresult.kind = "MeilisearchCommunicationError"
           /\ (LastRequest.reply.net = "response" /\ ~Success(LastRequest.reply))
                => \/ cresult = Raised("MeilisearchApiError", LastRequest.reply.status,
                                       LastRequest.reply.code)
                   \/ /\ op.name = "get_raw_index" /\ LastRequest.reply.status = 404
                      /\ cresult.kind = "None"

\* C18: the URL of a list request carries offset exactly when offset was given,
\* with its value, 0 included, and limit likewise; omitted parameters are not in
\* the URL.  An empty result list makes get_indexes and get_raw_indexes return
\* None; it is never an error.
C18_Pagination ==
    (op.name \in ListMethods /\ cpc = "done")
        => LET url == csent[1].url IN
           /\ url.path = ListBase(op.name)
           /\ HasParam(url, "offset") = op.offset.some
           /\ HasParam(url, "limit") = op.limit.some
           /\ op.offset.some => Param(url, "offset", -1) = op.offset.v
           /\ op.limit.some => Param(url, "limit", -1) = op.limit.v
           /\ Len(url.query) = Cardinality({n \in {"offset", "limit"} : HasParam(url, n)})
           /\ (op.name # "get_keys" /\ Success(csent[1].reply)
                    /\ csent[1].reply.results = <<>>)
                => cresult = Returned("None", "", "null", <<>>)

C18_Witness ==
    /\ op.name = "get_indexes" /\ cpc = "done"
    /\ op.offset = [some |-> TRUE, v |-> 0] /\ op.limit = [some |-> TRUE, v |-> 0]
    /\ csent[1].url.query = << <<"offset", 0>>, <<"limit", 0>> >>
    /\ srvIndexes["movies"].exists
    /\ cresult = Returned("None", "", "null", <<>>)

\* C20 (as stated): a create_index(uid, primary_key) that returns normally
\* returns an index with the requested uid and the requested primary key, None
\* when none (None or the empty string) was requested.
C20_CreateReturnsRequested ==
    (op.name = "create_index" /\ cpc = "done" /\ cresult.kind = "Index")
        => /\ cresult.uid = op.uid
           /\ cresult.primary_key
                = (IF op.primary_key \in {"null", ""} THEN "null" ELSE op.primary_key)

DeleteRequests == {k \in 1..Len(csent) : csent[k].method = "DELETE"}

\* C21: delete_index_if_exists sends one DELETE for the index and waits for its
\* task; when the wait ends it returns True exactly when the task succeeded,
\* the index then being gone, and False when the task failed or was canceled;
\* it ends in no error other than those of the transport and the wait's
\* timeout.
C21_DeleteIfExists ==
    (op.name = "delete_index_if_exists" /\ cpc = "done")
        => /\ DeleteRequests = {1}
           /\ csent[1].url = IndexUrl(op.uid)
           /\ cresult.kind \in {"True", "False", "MeilisearchApiError",
                                "MeilisearchCommunicationError", "MeilisearchTimeoutError"}
           /\ cresult.kind \in {"True", "False"}
                => /\ srvTask.type = "indexDeletion" /\ srvTask.uid = op.uid
                   /\ srvTask.status \in TerminalStatuses
                   /\ (cresult.kind = "True") = (srvTask.status = "succeeded")
           /\ cresult.kind = "True" => ~srvIndexes[op.uid].exists

C21_Witness ==
    /\ op.name = "delete_index_if_exists" /\ cpc = "done"
    /\ srvTask.status = "failed" /\ cresult.kind = "False"
    /\ Len(csent) = 2

C23_AuthorizationHeader ==
    \A k \in 1..Len(csent) :
        IF client.api_key \in {"null", ""}
        THEN \A h \in csent[k].headers : h[1] # "Authorization"
        ELSE <<"Authorization", <<"Bearer", client.api_key>> >> \in csent[k].headers

C23_Witness ==
    /\ client.api_key = "masterKey" /\ op.name = "create_index" /\ cpc = "done"
    /\ Len(csent) = 3
    /\ \A k \in 1..3 : csent[k].headers = {<<"Authorization", <<"Bearer", "masterKey">> >>}

C25_IndexReference ==
    /\ [](op.name = "index" /\ cpc = "done"
            => /\ csent = <<>>
               /\ cresult.kind = "Index" /\ cresult.uid = op.uid
               /\ cresult.primary_key = "null" /\ cresult.timestamps = "null"
               /\ srvTask = NoTask)
    /\ [][op.name = "index" => srvIndexes' = srvIndexes]_vars

C25_Witness ==
    /\ op.name = "index" /\ cpc = "done"
    /\ srvIndexes[op.uid] = [exists |-> TRUE, primaryKey |-> "id"]
    /\ cresult.uid = op.uid /\ cresult.primary_key = "null"

\* ------------------------------------------- directory ingestion and fan-out
\* add_documents_from_directory / update_documents_from_directory with
\* combine_documents=False, and add_documents_in_batches, as Index runs them
\* (mode "sync") and as AsyncIndex runs them: with asyncio.gather when
\* use_task_groups() is false, with asyncio.TaskGroup when it is true.  For the
\* batch method the entries of listing are the batches, all of them matching.
\* add_documents_from_directory_in_batches is modelled as Index runs it, also
\* without combining: a file of no documents gives no batch and no request.

MaxEntries == 3

DirMethods == {"add_documents_from_directory", "update_documents_from_directory"}
BatchMethods == {"add_documents_in_batches"}
DirBatchMethods == {"add_documents_from_directory_in_batches"}
Modes == {"sync", "gather", "taskgroup"}
AsyncModes == {"gather", "taskgroup"}
Suffixes == {"json", "txt"}
DocumentType == "json"
\* A directory entry: its suffix and whether the list loaded from it holds a
\* document (a json file may hold []).
Entries == [suffix : Suffixes, docs : {0, 1}]
Listings == UNION {[1..n -> Entries] : n \in 0..MaxEntries}
DirKeys == {"null", "id"}
Outcomes == {"ok", "MeilisearchApiError", "MeilisearchCommunicationError"}

\* path.suffix == f".{document_type}"
Matches(k) == listing[k].suffix = DocumentType
\* _batch: range(0, len(documents), batch_size), for a file of at most
\* batch_size documents.
NumBatches(k) == IF listing[k].docs = 0 THEN 0 ELSE 1
MatchingEntries == {k \in 1..Len(listing) : Matches(k)}

\* The primary key of the call awaited inside the TaskGroup loop when i == 0.
FirstKey(method, key) == IF method = "add_documents_from_directory" THEN "null" ELSE key

InState(s) == {k \in 1..Len(listing) : rq[k] = s}
Running == InState("scheduled") \cup InState("inflight")
SetMax(S) == CHOOSE x \in S : \A y \in S : y <= x
RECURSIVE Ascending(_)
Ascending(S) ==
    IF S = {} THEN <<>>
    ELSE LET x == CHOOSE y \in S : \A z \in S : y <= z IN <<x>> \o Ascending(S \ {x})

NoDirResult == [kind |-> "none", items |-> <<>>]
DirRaised(kind) == [kind |-> kind, items |-> <<>>]
DirReturned(items) == [kind |-> "list", items |-> items]

\* One pass of the loop over directory.iterdir() (over the batches).
DirStep ==
    /\ dpc = "loop" /\ di <= Len(listing)
    /\ IF ~Matches(di)
       THEN /\ di' = di + 1
            /\ UNCHANGED <<dpc, rq, dfirst, dlog, dsent, dresult>>
       ELSE IF dop \in DirBatchMethods /\ NumBatches(di) = 0
       THEN /\ di' = di + 1
            /\ UNCHANGED <<dpc, rq, dfirst, dlog, dsent, dresult>>
       ELSE IF mode = "sync"
       THEN \E o \in Outcomes :
            /\ dsent' = Append(dsent, [job |-> di, primaryKey |-> dkey])
            /\ dlog' = dlog \o << <<"send", di>>, <<"recv", di>> >>
            /\ rq' = [rq EXCEPT ![di] = IF o = "ok" THEN "ok" ELSE "failed"]
            /\ IF o = "ok"
               THEN /\ di' = di + 1 /\ dpc' = dpc
                    /\ dresult' = [dresult EXCEPT !.items = Append(@, di)]
               ELSE /\ di' = di /\ dpc' = "done"
                    /\ dresult' = DirRaised(o)
            /\ UNCHANGED dfirst
       ELSE IF mode = "gather"
       THEN /\ rq' = [rq EXCEPT ![di] = "created"]
            /\ di' = di + 1
            /\ UNCHANGED <<dpc, dfirst, dlog, dsent, dresult>>
       ELSE IF dop \in BatchMethods
       THEN /\ rq' = [rq EXCEPT ![di] = "scheduled"]
            /\ di' = di + 1
            /\ UNCHANGED <<dpc, dfirst, dlog, dsent, dresult>>
       ELSE /\ dpc' = "load"
            /\ UNCHANGED <<di, rq, dfirst, dlog, dsent, dresult>>
    /\ UNCHANGED <<dop, mode, listing, dkey>>
    /\ UNCHANGED <<pollVars, batchVars, tokenVars, clientVars, raceVars>>

\* TaskGroup loop of the directory methods, after the file is loaded:
\* if i == 0 the call is awaited, else it becomes a task of the group.
DirLoaded ==
    /\ dpc = "load"
    /\ IF di = 1
       THEN /\ dsent' = Append(dsent, [job |-> di, primaryKey |-> FirstKey(dop, dkey)])
            /\ dlog' = Append(dlog, <<"send", di>>)
            /\ rq' = [rq EXCEPT ![di] = "inflight"]
            /\ dfirst' = di
            /\ dpc' = "await_first"
            /\ di' = di
       ELSE /\ rq' = [rq EXCEPT ![di] = "scheduled"]
            /\ dpc' = "loop"
            /\ di' = di + 1
            /\ UNCHANGED <<dfirst, dlog, dsent>>
    /\ UNCHANGED <<dop, mode, listing, dkey, dresult>>
    /\ UNCHANGED <<pollVars, batchVars, tokenVars, clientVars, raceVars>>

\* After the loop: the sync methods return; the gather path pops the last call
\* and awaits it on its own, or gathers the batches; the TaskGroup block ends.
DirAfterLoop ==
    /\ dpc = "loop" /\ di > Len(listing)
    /\ IF mode = "sync"
       THEN /\ dresult' = IF dop \in DirMethods \cup DirBatchMethods
                                     /\ dresult.items = <<>>
                          THEN DirRaised("MeilisearchError")
                          ELSE DirReturned(dresult.items)
            /\ dpc' = "done"
            /\ UNCHANGED <<rq, dfirst, dlog, dsent>>
       ELSE IF mode = "gather" /\ dop \in DirMethods
       THEN IF InState("created") = {}
            THEN /\ dresult' = DirRaised("MeilisearchError")
                 /\ dpc' = "done"
                 /\ UNCHANGED <<rq, dfirst, dlog, dsent>>
            ELSE LET j == SetMax(InState("created")) IN
                 /\ dsent' = Append(dsent, [job |-> j, primaryKey |-> dkey])
                 /\ dlog' = Append(dlog, <<"send", j>>)
                 /\ rq' = [rq EXCEPT ![j] = "inflight"]
                 /\ dfirst' = j
                 /\ dpc' = "await_first"
                 /\ UNCHANGED dresult
       ELSE IF mode = "gather"
       THEN /\ rq' = [k \in 1..Len(listing) |->
                        IF rq[k] = "created" THEN "scheduled" ELSE rq[k]]
            /\ dpc' = "join"
            /\ UNCHANGED <<dfirst, dlog, dsent, dresult>>
       ELSE /\ dpc' = "join"
            /\ UNCHANGED <<rq, dfirst, dlog, dsent, dresult>>
    /\ UNCHANGED <<dop, mode, listing, dkey, di>>
    /\ UNCHANGED <<pollVars, batchVars, tokenVars, clientVars, raceVars>>

\* A task starts while the caller is suspended: add_documents sends its POST.
TaskStart ==
    /\ dpc \in {"load", "await_first", "join", "done"}
    /\ \E k \in InState("scheduled") :
        /\ rq' = [rq EXCEPT ![k] = "inflight"]
        /\ dsent' = Append(dsent, [job |-> k, primaryKey |-> dkey])
        /\ dlog' = Append(dlog, <<"send", k>>)
    /\ UNCHANGED <<dop, mode, listing, dkey, di, dpc, dfirst, dresult>>
    /\ UNCHANGED <<pollVars, batchVars, tokenVars, clientVars, raceVars>>

\* asyncio.TaskGroup: the other unfinished tasks of the group are cancelled.
CancelSiblings(k) ==
    [j \in 1..Len(listing) |->
        IF j = k THEN "failed"
        ELSE IF rq[j] \in {"scheduled", "inflight"} THEN "cancelled" ELSE rq[j]]

\* The call awaited on its own ends.
FirstDone ==
    /\ dpc = "await_first" /\ rq[dfirst] = "inflight"
    /\ dlog' = Append(dlog, <<"recv", dfirst>>)
    /\ \E o \in Outcomes :
        IF o = "ok"
        THEN /\ dresult' = [dresult EXCEPT !.items = Append(@, dfirst)]
             /\ IF mode = "taskgroup"
                THEN /\ rq' = [rq EXCEPT ![dfirst] = "ok"]
                     /\ dpc' = "loop" /\ di' = di + 1
                ELSE IF InState("created") = {}
                THEN /\ rq' = [rq EXCEPT ![dfirst] = "ok"]
                     /\ dresult' = DirReturned(<<dfirst>>)
                     /\ dpc' = "done" /\ di' = di
                ELSE /\ rq' = [k \in 1..Len(listing) |->
                                 IF k = dfirst THEN "ok"
                                 ELSE IF rq[k] = "created" THEN "scheduled" ELSE rq[k]]
                     /\ dpc' = "join" /\ di' = di
        ELSE /\ rq' = IF mode = "taskgroup" THEN CancelSiblings(dfirst)
                      ELSE [rq EXCEPT ![dfirst] = "failed"]
             /\ dresult' = DirRaised(IF mode = "taskgroup" THEN "ExceptionGroup" ELSE o)
             /\ dpc' = "done" /\ di' = di
    /\ UNCHANGED <<dop, mode, listing, dkey, dfirst, dsent>>
    /\ UNCHANGED <<pollVars, batchVars, tokenVars, clientVars, raceVars>>

\* A task's request is answered.  With gather the first exception goes to the
\* caller at once and the other tasks run on; a TaskGroup cancels the others
\* and raises an ExceptionGroup.
TaskDone ==
    /\ dpc \in {"load", "join", "done"}
    /\ \E k \in InState("inflight"), o \in Outcomes :
        /\ dlog' = Append(dlog, <<"recv", k>>)
        /\ IF o = "ok"
           THEN /\ rq' = [rq EXCEPT ![k] = "ok"]
                /\ UNCHANGED <<dpc, dresult>>
           ELSE IF mode = "taskgroup"
           THEN /\ rq' = CancelSiblings(k)
                /\ dpc' = "done"
                /\ dresult' = DirRaised("ExceptionGroup")
           ELSE /\ rq' = [rq EXCEPT ![k] = "failed"]
                /\ IF dpc = "join"
                   THEN dpc' = "done" /\ dresult' = DirRaised(o)
                   ELSE UNCHANGED <<dpc, dresult>>
    /\ UNCHANGED <<dop, mode, listing, dkey, di, dfirst, dsent>>
    /\ UNCHANGED <<pollVars, batchVars, tokenVars, clientVars, raceVars>>

\* Every task has ended well: the results are put together and returned.
DirJoin ==
    /\ dpc = "join" /\ Running = {} /\ InState("failed") = {}
    /\ LET items == dresult.items \o Ascending(InState("ok") \ {dfirst}) IN
       dresult' = IF mode = "taskgroup" /\ dop \in DirMethods /\ items = <<>>
                  THEN DirRaised("MeilisearchError")
                  ELSE DirReturned(items)
    /\ dpc' = "done"
    /\ UNCHANGED <<dop, mode, listing, dkey, di, rq, dfirst, dlog, dsent>>
    /\ UNCHANGED <<pollVars, batchVars, tokenVars, clientVars, raceVars>>

DirInit ==
    /\ dop \in DirMethods \cup BatchMethods \cup DirBatchMethods
    /\ mode \in Modes
    /\ dop \in DirBatchMethods => mode = "sync"
    /\ listing \in Listings
    /\ dop \in BatchMethods => \A k \in 1..Len(listing) : listing[k].suffix = DocumentType
    /\ dop \notin DirBatchMethods => \A k \in 1..Len(listing) : listing[k].docs = 1
    /\ dkey \in DirKeys
    /\ di = 1
    /\ dpc = "loop"
    /\ rq = [k \in 1..Len(listing) |-> "none"]
    /\ dfirst = 0
    /\ dlog = <<>>
    /\ dsent = <<>>
    /\ dresult = NoDirResult

NextDir == DirStep \/ DirLoaded \/ DirAfterLoop \/ TaskStart \/ FirstDone \/ TaskDone \/ DirJoin
InitDir == PollInit /\ BatchIdle /\ TokenIdle /\ ClientIdle /\ DirInit /\ RaceIdle
SpecDir == InitDir /\ [][NextDir]_vars

\* C15 (as stated): in the async directory methods without combining, when more
\* than one entry matches, the first request sent is answered before any
\* request for another file is sent.
C15_FirstFileAlone ==
    (dop \in DirMethods /\ mode \in AsyncModes /\ Cardinality(MatchingEntries) > 1
        /\ Len(dlog) >= 2)
        => dlog[2] = <<"recv", dlog[1][2]>>

\* C16 (as stated): in the async fan-out, when a request has failed, no other
\* call is cancelled and every call that succeeded has its result in what the
\* caller received.
C16_FailureIsolation ==
    (mode \in AsyncModes /\ dpc = "done" /\ InState("failed") # {})
        => /\ InState("cancelled") = {}
           /\ \A k \in InState("ok") : k \in Range(dresult.items)

\* The requests Index (sync) sends for the same arguments: one per matching
\* entry, each with primary_key.
SyncRequests == {[job |-> k, primaryKey |-> dkey] : k \in MatchingEntries}
SyncKinds == {"list", "MeilisearchError", "MeilisearchApiError",
              "MeilisearchCommunicationError"}

\* C19 (as stated): the async methods send the requests the sync methods send
\* and end with a result or an error of the same kind.
C19_SyncAsyncSame ==
    (mode \in AsyncModes /\ dpc = "done")
        => /\ dresult.kind \in SyncKinds
           /\ dresult.kind = "list"
                => /\ Range(dsent) = SyncRequests
                   /\ Range(dresult.items) = MatchingEntries

\* The sync methods do send SyncRequests when every request succeeds.
SyncSendsSyncRequests ==
    (mode = "sync" /\ dop \notin DirBatchMethods /\ dpc = "done" /\ dresult.kind = "list")
        => Range(dsent) = SyncRequests /\ dresult.items = Ascending(MatchingEntries)

\* C26 (as stated): every request of the directory methods carries the
\* caller's primary_key, for every matching file whatever its position and in
\* the sync, the gather and the TaskGroup path.
C26_PrimaryKeyOnEveryRequest ==
    dop \in DirMethods \cup DirBatchMethods
        => \A k \in 1..Len(dsent) : dsent[k].primaryKey = dkey

\* C27 (as stated): directory ingestion ends in MeilisearchError exactly when
\* no entry of the directory has the suffix document_type, no request having
\* been sent then; when an entry matches, it returns one task handle for each
\* request sent.
C27_NoFilesError ==
    (dop \in DirMethods \cup DirBatchMethods /\ dpc = "done")
        => /\ (dresult.kind = "MeilisearchError") = (MatchingEntries = {})
           /\ dresult.kind = "MeilisearchError" => dsent = <<>>
           /\ dresult.kind = "list" => Len(dresult.items) = Len(dsent)

\* The indexes a search_rules value names, in each of its three forms.
RuleIndexes(rules) ==
    IF rules.kind = "list" THEN Range(rules.items)
    ELSE rules.named \cup (IF rules.hasIndexes THEN Range(rules.indexes) ELSE {})

\* C29 (as stated): a token is returned only when every index the search rules
\* name, as a list, as the names of a dict or under its "indexes" entry, is one
\* the signing key allows; otherwise the call raises InvalidRestriction.
C29_NeverLessRestrictive ==
    (tpc = "done" /\ tokenResult.kind = "token")
        => \A i \in RuleIndexes(search_rules) :
              i \in Range(api_key.indexes) \/ Wildcard \in Range(api_key.indexes)

BatchFailed == bpc \in {"api_error", "communication_error"}

\* C30: the sync add_documents_in_batches posts the chunks in their order, one
\* at a time, each answered before the next is sent; when the request for a
\* chunk fails the method ends with that error, the chunks posted before stay
\* posted, no later chunk is ever sent and no task handles are returned.
C30_SequentialFailFast ==
    /\ [](/\ \A k \in 1..Len(posted) :
                posted[k].body = SubSeq(documents, (k - 1) * batch_size + 1,
                                        Min(k * batch_size, Len(documents)))
          /\ Len(taskInfos) = Len(posted)
          /\ bpc \in {"run", "returned"} => Len(chunks) = Len(posted)
          /\ BatchFailed => /\ Len(chunks) = Len(posted) + 1
                            /\ Len(posted) < CeilDiv(Len(documents), batch_size))
    /\ [][/\ SubSeq(posted', 1, Len(posted)) = posted
          /\ Len(posted') <= Len(posted) + 1
          /\ BatchFailed => posted' = posted /\ bpc' = bpc]_vars

C30_Witness ==
    /\ bpc = "api_error" /\ batch_size = 1 /\ Len(documents) = 3
    /\ Len(posted) = 1 /\ posted[1].body = <<documents[1]>>
    /\ Len(chunks) = 2

\* ------------------------------------------ two get_or_create_index at once
\* Two tasks of one event loop call AsyncClient.get_or_create_index for the
\* same uid, each with its own primary_key.  A task runs until its next await
\* (a request, or the wait for its creation task); the server runs the
\* creation tasks one at a time.

Callers == {1, 2}

RaceRequest(method, url, body, reply) ==
    [method |-> method, url |-> url, body |-> body, reply |-> reply]

\* async_wait_for_task is called without raise_for_status: a failed task ends
\* the wait without an error.
WaitRaisesOnFailure(status) == status = "failed"
WaitRaises(status) == FALSE

\* get_index, and the except clause of get_or_create_index.
RaceFetchInfo(c) ==
    /\ rpc[c] = "get"
    /\ \E reply \in Replies(rsrv, "GET", IndexUrl(rargs.uid)) :
        LET err == HttpRequests(reply) IN
        /\ rsent' = [rsent EXCEPT ![c] =
                        Append(@, RaceRequest("GET", IndexUrl(rargs.uid), NoBody, reply))]
        /\ IF err = NoResult
           THEN /\ rres' = [rres EXCEPT ![c] =
                               Returned("Index", rargs.uid, reply.primaryKey, <<>>)]
                /\ rpc' = [rpc EXCEPT ![c] = "done"]
           ELSE IF err.kind = "MeilisearchApiError" /\ IndexNotFoundIn(err.code)
           THEN rres' = rres /\ rpc' = [rpc EXCEPT ![c] = "post"]
           ELSE rres' = [rres EXCEPT ![c] = err] /\ rpc' = [rpc EXCEPT ![c] = "done"]
    /\ UNCHANGED <<rargs, rsrv, rtasks>>
    /\ UNCHANGED <<pollVars, batchVars, tokenVars, clientVars, dirVars>>

\* AsyncIndex.create: the POST.
RaceCreatePost(c) ==
    /\ rpc[c] = "post"
    /\ \E reply \in Replies(rsrv, "POST", IndexUrl("")) :
        LET err == HttpRequests(reply)
            payload == CreatePayload(rargs.uid, rargs.primary_key[c]) IN
        /\ rsent' = [rsent EXCEPT ![c] =
                        Append(@, RaceRequest("POST", IndexUrl(""), payload, reply))]
        /\ IF err = NoResult
           THEN /\ rtasks' = [rtasks EXCEPT ![c] =
                                 [type |-> "indexCreation", status |-> "enqueued",
                                  uid |-> payload.uid,
                                  hasPrimaryKey |-> payload.hasPrimaryKey,
                                  primaryKey |-> payload.primaryKey]]
                /\ rres' = rres /\ rpc' = [rpc EXCEPT ![c] = "wait"]
           ELSE /\ rtasks' = rtasks
                /\ rres' = [rres EXCEPT ![c] = err]
                /\ rpc' = [rpc EXCEPT ![c] = "done"]
    /\ UNCHANGED <<rargs, rsrv>>
    /\ UNCHANGED <<pollVars, batchVars, tokenVars, clientVars, dirVars>>

\* AsyncIndex.create: the wait for the task, which ends when a fetch shows it
\* terminal, when a fetch fails, or with the timeout while it is enqueued.
RaceCreateWait(c) ==
    /\ rpc[c] = "wait"
    /\ \/ /\ rtasks[c].status \in TerminalStatuses
          /\ rsent' = [rsent EXCEPT ![c] =
                          Append(@, RaceRequest("GET", TaskUrl, NoBody,
                                                ServerAnswer(rsrv, "GET", TaskUrl)))]
          /\ IF WaitRaises(rtasks[c].status)
             THEN /\ rres' = [rres EXCEPT ![c] = Raised("MeilisearchTaskFailedError", 0, "")]
                  /\ rpc' = [rpc EXCEPT ![c] = "done"]
             ELSE rres' = rres /\ rpc' = [rpc EXCEPT ![c] = "fetch"]
       \/ \E reply \in {Denied, TransportFailure} :
          /\ rsent' = [rsent EXCEPT ![c] =
                          Append(@, RaceRequest("GET", TaskUrl, NoBody, reply))]
          /\ rres' = [rres EXCEPT ![c] = HttpRequests(reply)]
          /\ rpc' = [rpc EXCEPT ![c] = "done"]
       \/ /\ rtasks[c].status = "enqueued"
          /\ rsent' = [rsent EXCEPT ![c] =
                          Append(@, RaceRequest("GET", TaskUrl, NoBody,
                                                ServerAnswer(rsrv, "GET", TaskUrl)))]
          /\ rres' = [rres EXCEPT ![c] = Raised("MeilisearchTimeoutError", 0, "")]
          /\ rpc' = [rpc EXCEPT ![c] = "done"]
    /\ UNCHANGED <<rargs, rsrv, rtasks>>
    /\ UNCHANGED <<pollVars, batchVars, tokenVars, clientVars, dirVars>>

\* AsyncIndex.create: the GET of the index, and the instance built from it.
RaceCreateFetch(c) ==
    /\ rpc[c] = "fetch"
    /\ \E reply \in Replies(rsrv, "GET", IndexUrl(rargs.uid)) :
        LET err == HttpRequests(reply) IN
        /\ rsent' = [rsent EXCEPT ![c] =
                        Append(@, RaceRequest("GET", IndexUrl(rargs.uid), NoBody, reply))]
        /\ rres' = [rres EXCEPT ![c] =
                       IF err = NoResult
                       THEN Returned("Index", reply.uid, reply.primaryKey, <<>>)
                       ELSE err]
        /\ rpc' = [rpc EXCEPT ![c] = "done"]
    /\ UNCHANGED <<rargs, rsrv, rtasks>>
    /\ UNCHANGED <<pollVars, batchVars, tokenVars, clientVars, dirVars>>

\* The server runs one enqueued indexCreation task: it fails when the index
\* exists.
RaceServerCreate ==
    /\ \E c \in Callers :
        /\ rtasks[c].status = "enqueued"
        /\ IF rsrv[rtasks[c].uid].exists
           THEN /\ rtasks' = [rtasks EXCEPT ![c].status = "failed"]
                /\ rsrv' = rsrv
           ELSE /\ rtasks' = [rtasks EXCEPT ![c].status = "succeeded"]
                /\ rsrv' = [rsrv EXCEPT ![rtasks[c].uid] =
                               [exists |-> TRUE, primaryKey |-> rtasks[c].primaryKey]]
    /\ UNCHANGED <<rargs, rpc, rsent, rres>>
    /\ UNCHANGED <<pollVars, batchVars, tokenVars, clientVars, dirVars>>

RaceInit ==
    /\ rargs \in [uid : Uids, primary_key : [Callers -> RequestedKeys]]
    /\ rsrv \in [Uids -> IndexStates]
    /\ rtasks = [c \in Callers |-> NoTask]
    /\ rpc = [c \in Callers |-> "get"]
    /\ rsent = [c \in Callers |-> <<>>]
    /\ rres = [c \in Callers |-> NoResult]

NextRace ==
    \/ \E c \in Callers : RaceFetchInfo(c)
    \/ \E c \in Callers : RaceCreatePost(c)
    \/ \E c \in Callers : RaceCreateWait(c)
    \/ \E c \in Callers : RaceCreateFetch(c)
    \/ RaceServerCreate

InitRace == PollInit /\ BatchIdle /\ TokenIdle /\ ClientIdle /\ DirIdle /\ RaceInit
SpecRace == InitRace /\ [][NextRace]_vars

\* The server answered every request of caller c itself, and c's wait did not
\* run out of time.
Served(c) ==
    /\ \A k \in 1..Len(rsent[c]) : rsent[c][k].reply \notin {Denied, TransportFailure}
    /\ rres[c].kind # "MeilisearchTimeoutError"

\* C28: two concurrent get_or_create_index calls for one uid, whatever the
\* interleaving, also when both saw index_not_found and both sent the create
\* request: each call the server answered returns an index of that uid and
\* raises nothing, and at most one of the creation tasks created the index.
C28_ConcurrentGetOrCreate ==
    /\ \A c \in Callers :
          (rpc[c] = "done" /\ Served(c))
              => rres[c].kind = "Index" /\ rres[c].uid = rargs.uid
    /\ Cardinality({c \in Callers : rtasks[c].status = "succeeded"}) <= 1
    /\ (\E c \in Callers : rtasks[c].status = "succeeded") => rsrv[rargs.uid].exists

C28_Witness ==
    /\ \A c \in Callers :
          /\ rpc[c] = "done" /\ Served(c)
          /\ Len(rsent[c]) = 4 /\ rsent[c][1].reply.code = "index_not_found"
          /\ rres[c].kind = "Index" /\ rres[c].uid = rargs.uid
    /\ rtasks[1].status = "failed" /\ rtasks[2].status = "succeeded"
    /\ rargs.primary_key[1] = "id" /\ rargs.primary_key[2] = "null"
====
